---- MODULE Spec2Model ----
(***************************************************************************)
(* The coffee machine of schildcafe.coffeepot: one Machine guarded by one  *)
(* sync.Mutex, callers that run StartJob / RetrieveJob / Status            *)
(* concurrently, and one awaitCompletion goroutine per admitted job.       *)
(*                                                                         *)
(* Every operation is cut at the points where the Go scheduler can         *)
(* interleave it with the others: the part before m.mu.Lock(), the         *)
(* acquisition of the mutex, and the critical section, which ends with the *)
(* deferred Unlock and the return.  time.Now() is the variable now, a      *)
(* clock that ticks between steps.                                         *)
(*                                                                         *)
(* The repository holds three Machines of the same design.  Spec, LiveSpec *)
(* and HistSpec are the Machine of src/unnamed/part_001 (with the status   *)
(* codes of its HTTP shell, src/unnamed/part_000), MainSpec is the Machine *)
(* of src/main.go and ChangelogSpec the Machine of src/Changelog.md; the   *)
(* definitions of the latter two are prefixed Main_ and CL_.  ShellSpec    *)
(* puts the handlers of src/unnamed/part_000 in front of the Machine of    *)
(* part_001, PendingSpec is that Machine with all its operations and fair  *)
(* scheduling, BrewSpec applies the brew duration computations to their   *)
(* inputs, and CL_ShellSpec puts the handlers of src/Changelog.md in front *)
(* of its Machine.                                                         *)
(***************************************************************************)
EXTENDS Integers, Sequences, FiniteSets, TLC

\* ------------------------------------------------------------------ bounds
\* The clock runs from 0 to MaxTime.
MaxTime == 3
\* brewTimeFn returns a duration of 1..MaxBrew clock ticks.
MaxBrew == 2

\* --------------------------------------------------------- program constants
StateAvailable == 0
StateBrewing == 1
StateBlocked == 2

supportedProducts ==
    { "COFFEE", "STRONG_COFFEE", "CAPPUCCINO", "COFFEE_WITH_MILK",
      "ESPRESSO", "ESPRESSO_CHOCOLATE", "KAKAO", "HOT_WATER" }

ErrNone == "nil"
ErrMachineBusy == "machine not available to accept jobs"
ErrUnsupportedProduct == "unsupported product"
ErrJobNotFound == "job not found"
ErrJobNotReady == "job not ready"
ErrJobAlreadyRetrieved == "job already retrieved"
ErrJobIDExists == "job ID already exists"
\* the error generateJobID wraps when crypto/rand fails
ErrGenerate == "generate job id"

\* ------------------------------------------------------------ input domains
Callers == { "c1", "c2" }
\* products a caller may send: a supported one and two that are not
ProductInputs == { "KAKAO", "INVALID", "" }
\* identifiers generateJobID can return
UUIDs == { "u1" }
\* identifiers a caller may send to StartJob ("" asks the machine for one)
StartIDs == { "", "job-1" }
\* identifiers a caller may send to RetrieveJob
RetrieveIDs == { "job-1", "u1", "nope" }
BrewTimes == 1..MaxBrew
\* identifiers a job can have
JobIDs == (UUIDs \cup StartIDs) \ { "" }

\* ---------------------------------------------------------------- the state
VARIABLES
    state,       \* Machine.state
    jobs,        \* Machine.jobs: JobID -> Job
    history,     \* Machine.history: sequence of JobIDs
    readyJob,    \* Machine.readyJob of src/Changelog.md ("" is nil); the other
                 \* Machines have no such field and leave it nil
    currentJob,  \* Machine.currentJob ("" when none)
    mu,          \* Machine.mu: <<>> when free, else its holder
    now,         \* time.Now()
    timers,      \* the awaitCompletion goroutines: JobID -> [pc, wake, set],
                 \* set: the goroutine took the branch that assigns m.state
    pc,          \* each caller's position: "idle", "lock", "crit"
    call,        \* each caller's call in progress: [op, product, jobID]
    ret          \* each caller's last call and what it returned:
                 \* [op, product, jobID, err, job, state]

machine == <<state, jobs, history, currentJob, readyJob>>
vars == <<state, jobs, history, currentJob, readyJob, mu, now, timers, pc, call, ret>>

\* Job{}: the zero value returned next to an error
ZeroJob ==
    [ JobID |-> "", Product |-> "", JobStarted |-> 0, JobReady |-> 0,
      JobRetrieved |-> <<>> ]

NoCall == [ op |-> "", product |-> "", jobID |-> "" ]
NoRet ==
    [ op |-> "", product |-> "", jobID |-> "", err |-> ErrNone, job |-> ZeroJob,
      state |-> StateAvailable ]

Free == <<>>

\* the zero-value state is StateAvailable; NewMachine builds empty collections
Init ==
    /\ state = StateAvailable
    /\ jobs = << >>
    /\ history = << >>
    /\ currentJob = ""
    /\ readyJob = ""
    /\ mu = Free
    /\ now = 0
    /\ timers = << >>
    /\ pc = [ c \in Callers |-> "idle" ]
    /\ call = [ c \in Callers |-> NoCall ]
    /\ ret = [ c \in Callers |-> NoRet ]

\* ------------------------------------------------------------------ helpers
\* mutant of valid: any non-empty product passes
valid_NonEmpty(p) == p # ""

\* Product.valid
valid(p) == p \in supportedProducts

\* mutants of MachineBusy: a busy check that forgets one of the two busy states
MachineBusy_OnlyBlocked(s) == s = StateBlocked
MachineBusy_OnlyBrewing(s) == s = StateBrewing
\* mutant of MachineBusy: the busy check is missing
MachineBusy_Never(s) == FALSE

\* StartJob: if m.state != StateAvailable { return ErrMachineBusy }
MachineBusy(s) == s # StateAvailable

\* mutant of JobExists: only the active job counts as existing
JobExists_OnlyActive(id) == id \in DOMAIN jobs /\ id = currentJob

\* StartJob: if _, exists := m.jobs[jobID]; exists
JobExists(id) == id \in DOMAIN jobs

\* mutant of AlreadyRetrieved: the check is missing
AlreadyRetrieved_Never(job) == FALSE

\* RetrieveJob: if job.JobRetrieved != nil
AlreadyRetrieved(job) == job.JobRetrieved # <<>>

\* mutant of NotReadyYet: Before replaced by "not After"
NotReadyYet_OffByOne(t, job) == t <= job.JobReady

\* mutant of NotReadyYet: the readiness check is missing
NotReadyYet_Never(t, job) == FALSE

\* RetrieveJob: if time.Now().Before(job.JobReady)
NotReadyYet(t, job) == t < job.JobReady

\* mutant of IsCurrentJob: the retrieval never frees the machine
IsCurrentJob_Never(id) == FALSE

\* mutant of IsCurrentJob: the machine is freed only once the timer has fired
IsCurrentJob_WhenBlocked(id) == currentJob = id /\ state = StateBlocked

\* RetrieveJob: if m.currentJob == jobID
IsCurrentJob(id) == currentJob = id

\* mutants of TimerMayBlock: the retrieval check dropped, and inverted
TimerMayBlock_Unchecked(id) == id \in DOMAIN jobs
TimerMayBlock_Inverted(id) == id \in DOMAIN jobs /\ jobs[id].JobRetrieved # <<>>

\* awaitCompletion: if job, ok := m.jobs[jobID]; ok && job.JobRetrieved == nil
TimerMayBlock(id) == id \in DOMAIN jobs /\ jobs[id].JobRetrieved = <<>>

\* mutant of SleepOver: the timer does not sleep
SleepOver_NoSleep(t, wake) == TRUE

\* awaitCompletion: time.Sleep(duration) returns no earlier than the wake time
SleepOver(t, wake) == t >= wake

\* mutant of MapPut: the map is rebuilt with the new entry only
MapPut_Only(m, k, v) == [ x \in { k } |-> v ]

\* m[k] = v on a map
MapPut(m, k, v) == [ x \in DOMAIN m \cup {k} |-> IF x = k THEN v ELSE m[x] ]

Return(c, args, err, job, st) ==
    /\ ret' = [ ret EXCEPT ![c] =
                 [ op |-> args.op, product |-> args.product, jobID |-> args.jobID,
                   err |-> err, job |-> job, state |-> st ] ]
    /\ call' = [ call EXCEPT ![c] = NoCall ]
    /\ pc' = [ pc EXCEPT ![c] = "idle" ]

\* ------------------------------------------------------------------- callers
\* StartJob up to m.mu.Lock(): the product check, done without the lock.
StartJobEnter(c) ==
    /\ pc[c] = "idle"
    \* no new StartJob once a brew might not end within the clock's range
    /\ now + MaxBrew <= MaxTime
    /\ \E product \in ProductInputs, jobID \in StartIDs :
         IF ~valid(product)
         THEN /\ Return(c, [ op |-> "StartJob", product |-> product, jobID |-> jobID ],
                        ErrUnsupportedProduct, ZeroJob, StateAvailable)
              /\ UNCHANGED <<machine, mu, now, timers>>
         ELSE /\ pc' = [ pc EXCEPT ![c] = "lock" ]
              /\ call' = [ call EXCEPT ![c] =
                             [ op |-> "StartJob", product |-> product, jobID |-> jobID ] ]
              /\ ret' = [ ret EXCEPT ![c] = NoRet ]
              /\ UNCHANGED <<machine, mu, now, timers>>

\* RetrieveJob and Status up to m.mu.Lock()
RetrieveJobEnter(c) ==
    /\ pc[c] = "idle"
    /\ \E jobID \in RetrieveIDs :
         call' = [ call EXCEPT ![c] =
                     [ op |-> "RetrieveJob", product |-> "", jobID |-> jobID ] ]
    /\ pc' = [ pc EXCEPT ![c] = "lock" ]
    /\ ret' = [ ret EXCEPT ![c] = NoRet ]
    /\ UNCHANGED <<machine, mu, now, timers>>

StatusEnter(c) ==
    /\ pc[c] = "idle"
    /\ \E op \in { "Status" } :
         call' = [ call EXCEPT ![c] = [ op |-> op, product |-> "", jobID |-> "" ] ]
    /\ pc' = [ pc EXCEPT ![c] = "lock" ]
    /\ ret' = [ ret EXCEPT ![c] = NoRet ]
    /\ UNCHANGED <<machine, mu, now, timers>>

\* m.mu.Lock() returns
Acquire(c) ==
    /\ pc[c] = "lock"
    /\ mu = Free
    /\ mu' = <<"caller", c>>
    /\ pc' = [ pc EXCEPT ![c] = "crit" ]
    /\ UNCHANGED <<machine, now, timers, call, ret>>

\* mutant of StartJobBody: the admitted job is not made the active job
StartJobBody_NoActive(c) ==
    /\ pc[c] = "crit"
    /\ call[c].op = "StartJob"
    /\ mu = <<"caller", c>>
    /\ mu' = Free
    /\ UNCHANGED now
    /\ IF MachineBusy(state)
       THEN /\ Return(c, call[c], ErrMachineBusy, ZeroJob, StateAvailable)
            /\ UNCHANGED <<machine, timers>>
       ELSE \E gen \in UUIDs \cup { "" } :
              \* gen = "": crand.Read fails
              LET jobID == IF call[c].jobID = "" THEN gen ELSE call[c].jobID IN
              IF jobID = ""
              THEN /\ Return(c, call[c], ErrGenerate, ZeroJob, StateAvailable)
                   /\ UNCHANGED <<machine, timers>>
              ELSE IF JobExists(jobID)
              THEN /\ Return(c, call[c], ErrJobIDExists, ZeroJob, StateAvailable)
                   /\ UNCHANGED <<machine, timers>>
              ELSE \E brewDuration \in BrewTimes :
                     LET job == [ JobID |-> jobID,
                                  Product |-> call[c].product,
                                  JobStarted |-> now,
                                  JobReady |-> now + brewDuration,
                                  JobRetrieved |-> <<>> ]
                     IN /\ jobs' = MapPut(jobs, jobID, job)
                        /\ history' = Append(history, jobID)
                        /\ UNCHANGED currentJob
                        /\ state' = StateBrewing
                        /\ UNCHANGED readyJob
                        \* go m.awaitCompletion(jobID, brewDuration)
                        /\ timers' = MapPut(timers, jobID,
                                            [ pc |-> "sleep", wake |-> now + brewDuration,
                                              set |-> FALSE ])
                        /\ Return(c, call[c], ErrNone, job, StateAvailable)

\* mutant of StartJobBody: a failed generateJobID falls back to a timestamp
StartJobBody_Fallback(c) ==
    /\ pc[c] = "crit"
    /\ call[c].op = "StartJob"
    /\ mu = <<"caller", c>>
    /\ mu' = Free
    /\ UNCHANGED now
    /\ IF MachineBusy(state)
       THEN /\ Return(c, call[c], ErrMachineBusy, ZeroJob, StateAvailable)
            /\ UNCHANGED <<machine, timers>>
       ELSE \E gen \in UUIDs \cup { "" } :
              \* gen = "": crand.Read fails, and the clock supplies the identifier
              LET jobID == IF call[c].jobID # "" THEN call[c].jobID
                           ELSE IF gen = "" THEN ToString(now) ELSE gen IN
              IF JobExists(jobID)
              THEN /\ Return(c, call[c], ErrJobIDExists, ZeroJob, StateAvailable)
                   /\ UNCHANGED <<machine, timers>>
              ELSE \E brewDuration \in BrewTimes :
                     LET job == [ JobID |-> jobID,
                                  Product |-> call[c].product,
                                  JobStarted |-> now,
                                  JobReady |-> now + brewDuration,
                                  JobRetrieved |-> <<>> ]
                     IN /\ jobs' = MapPut(jobs, jobID, job)
                        /\ history' = Append(history, jobID)
                        /\ currentJob' = jobID
                        /\ state' = StateBrewing
                        /\ UNCHANGED readyJob
                        \* go m.awaitCompletion(jobID, brewDuration)
                        /\ timers' = MapPut(timers, jobID,
                                            [ pc |-> "sleep", wake |-> now + brewDuration,
                                              set |-> FALSE ])
                        /\ Return(c, call[c], ErrNone, job, StateAvailable)

\* StartJob from the busy check to the return, the deferred Unlock included
StartJobBody(c) ==
    /\ pc[c] = "crit"
    /\ call[c].op = "StartJob"
    /\ mu = <<"caller", c>>
    /\ mu' = Free
    /\ UNCHANGED now
    /\ IF MachineBusy(state)
       THEN /\ Return(c, call[c], ErrMachineBusy, ZeroJob, StateAvailable)
            /\ UNCHANGED <<machine, timers>>
       ELSE \E gen \in UUIDs \cup { "" } :
              \* gen = "": crand.Read fails
              LET jobID == IF call[c].jobID = "" THEN gen ELSE call[c].jobID IN
              IF jobID = ""
              THEN /\ Return(c, call[c], ErrGenerate, ZeroJob, StateAvailable)
                   /\ UNCHANGED <<machine, timers>>
              ELSE IF JobExists(jobID)
              THEN /\ Return(c, call[c], ErrJobIDExists, ZeroJob, StateAvailable)
                   /\ UNCHANGED <<machine, timers>>
              ELSE \E brewDuration \in BrewTimes :
                     LET job == [ JobID |-> jobID,
                                  Product |-> call[c].product,
                                  JobStarted |-> now,
                                  JobReady |-> now + brewDuration,
                                  JobRetrieved |-> <<>> ]
                     IN /\ jobs' = MapPut(jobs, jobID, job)
                        /\ history' = Append(history, jobID)
                        /\ currentJob' = jobID
                        /\ state' = StateBrewing
                        /\ UNCHANGED readyJob
                        \* go m.awaitCompletion(jobID, brewDuration)
                        /\ timers' = MapPut(timers, jobID,
                                            [ pc |-> "sleep", wake |-> now + brewDuration,
                                              set |-> FALSE ])
                        /\ Return(c, call[c], ErrNone, job, StateAvailable)

\* mutant of RetrieveErr: an unknown identifier is reported as not ready
RetrieveErr_UnknownNotReady(jobID, t) ==
    IF ~JobExists(jobID) THEN ErrJobNotReady
    ELSE IF AlreadyRetrieved(jobs[jobID]) THEN ErrJobAlreadyRetrieved
    ELSE IF NotReadyYet(t, jobs[jobID]) THEN ErrJobNotReady
    ELSE ErrNone

\* RetrieveJob: the three checks, in the order of the code
RetrieveErr(jobID, t) ==
    IF ~JobExists(jobID) THEN ErrJobNotFound
    ELSE IF AlreadyRetrieved(jobs[jobID]) THEN ErrJobAlreadyRetrieved
    ELSE IF NotReadyYet(t, jobs[jobID]) THEN ErrJobNotReady
    ELSE ErrNone

\* mutant of RetrieveJobBody: JobRetrieved is stamped before the readiness check
RetrieveJobBody_StampFirst(c) ==
    /\ pc[c] = "crit"
    /\ call[c].op = "RetrieveJob"
    /\ mu = <<"caller", c>>
    /\ mu' = Free
    /\ UNCHANGED <<now, timers, history, readyJob>>
    /\ LET jobID == call[c].jobID
           err == RetrieveErr(jobID, now)
       IN
       IF err = ErrJobNotReady
       THEN /\ Return(c, call[c], err, ZeroJob, StateAvailable)
            /\ jobs' = [ jobs EXCEPT ![jobID].JobRetrieved = <<now>> ]
            /\ UNCHANGED <<state, currentJob>>
       ELSE IF err # ErrNone
       THEN /\ Return(c, call[c], err, ZeroJob, StateAvailable)
            /\ UNCHANGED <<state, jobs, currentJob>>
       ELSE LET job == [ jobs[jobID] EXCEPT !.JobRetrieved = <<now>> ] IN
            /\ jobs' = [ jobs EXCEPT ![jobID] = job ]
            /\ IF IsCurrentJob(jobID)
               THEN /\ currentJob' = ""
                    /\ state' = StateAvailable
               ELSE UNCHANGED <<state, currentJob>>
            /\ Return(c, call[c], ErrNone, job, StateAvailable)

\* RetrieveJob from the lookup to the return, the deferred Unlock included
RetrieveJobBody(c) ==
    /\ pc[c] = "crit"
    /\ call[c].op = "RetrieveJob"
    /\ mu = <<"caller", c>>
    /\ mu' = Free
    /\ UNCHANGED <<now, timers, history, readyJob>>
    /\ LET jobID == call[c].jobID
           err == RetrieveErr(jobID, now)
       IN
       IF err # ErrNone
       THEN /\ Return(c, call[c], err, ZeroJob, StateAvailable)
            /\ UNCHANGED <<state, jobs, currentJob>>
       ELSE LET job == [ jobs[jobID] EXCEPT !.JobRetrieved = <<now>> ] IN
            /\ jobs' = [ jobs EXCEPT ![jobID] = job ]
            /\ IF IsCurrentJob(jobID)
               THEN /\ currentJob' = ""
                    /\ state' = StateAvailable
               ELSE UNCHANGED <<state, currentJob>>
            /\ Return(c, call[c], ErrNone, job, StateAvailable)

\* mutant of StatusBody: the call returns without the deferred Unlock
StatusBody_NoUnlock(c) ==
    /\ pc[c] = "crit"
    /\ call[c].op = "Status"
    /\ mu = <<"caller", c>>
    /\ Return(c, call[c], ErrNone, ZeroJob, state)
    /\ UNCHANGED <<machine, mu, now, timers>>

\* Status: read m.state under the lock
StatusBody(c) ==
    /\ pc[c] = "crit"
    /\ call[c].op = "Status"
    /\ mu = <<"caller", c>>
    /\ mu' = Free
    /\ Return(c, call[c], ErrNone, ZeroJob, state)
    /\ UNCHANGED <<machine, now, timers>>

\* -------------------------------------------------------------------- timers
\* awaitCompletion: time.Sleep(duration) is over and m.mu.Lock() returns
TimerAcquire(id) ==
    /\ id \in DOMAIN timers
    /\ timers[id].pc = "sleep"
    /\ SleepOver(now, timers[id].wake)
    /\ mu = Free
    /\ mu' = <<"timer", id>>
    /\ timers' = [ timers EXCEPT ![id].pc = "crit" ]
    /\ UNCHANGED <<machine, now, pc, call, ret>>

\* awaitCompletion: the check, the transition and the deferred Unlock
TimerBody(id) ==
    /\ id \in DOMAIN timers
    /\ timers[id].pc = "crit"
    /\ mu = <<"timer", id>>
    /\ mu' = Free
    /\ IF TimerMayBlock(id)
       THEN /\ state' = StateBlocked
            /\ timers' = [ timers EXCEPT ![id].pc = "done", ![id].set = TRUE ]
       ELSE /\ UNCHANGED state
            /\ timers' = [ timers EXCEPT ![id].pc = "done" ]
    /\ UNCHANGED <<jobs, history, currentJob, readyJob, now, pc, call, ret>>

\* --------------------------------------------------------------------- clock
\* The clock stops at MaxTime.
Tick ==
    /\ now < MaxTime
    /\ now' = now + 1
    /\ UNCHANGED <<machine, mu, timers, pc, call, ret>>

Next ==
    \/ \E c \in Callers : StartJobEnter(c)
    \/ \E c \in Callers : RetrieveJobEnter(c)
    \/ \E c \in Callers : StatusEnter(c)
    \/ \E c \in Callers : Acquire(c)
    \/ \E c \in Callers : StartJobBody(c)
    \/ \E c \in Callers : RetrieveJobBody(c)
    \/ \E c \in Callers : StatusBody(c)
    \/ \E id \in JobIDs : TimerAcquire(id)
    \/ \E id \in JobIDs : TimerBody(id)
    \/ Tick

Spec == Init /\ [][Next]_vars

\* Scheduling: the clock advances, a goroutine that holds the mutex runs to its
\* Unlock, and a goroutine waiting in Lock() gets the mutex (sync.Mutex hands
\* it to a waiter starved for 1ms).  Callers are free never to call.
Fairness ==
    /\ WF_vars(Tick)
    /\ \A c \in Callers :
         /\ SF_vars(Acquire(c))
         /\ WF_vars(StartJobBody(c) \/ RetrieveJobBody(c) \/ StatusBody(c))
    /\ \A id \in JobIDs :
         /\ SF_vars(TimerAcquire(id))
         /\ WF_vars(TimerBody(id))

FairSpec == Spec /\ Fairness

\* The same machine with one caller that issues every operation and the other
\* callers polling Status only: the timers race with a caller that admits and
\* retrieves and with lock holders that do neither.
Worker == "c1"
LiveNext ==
    \/ StartJobEnter(Worker)
    \/ RetrieveJobEnter(Worker)
    \/ \E c \in Callers : StatusEnter(c)
    \/ \E c \in Callers : Acquire(c)
    \/ StartJobBody(Worker)
    \/ RetrieveJobBody(Worker)
    \/ \E c \in Callers : StatusBody(c)
    \/ \E id \in JobIDs : TimerAcquire(id)
    \/ \E id \in JobIDs : TimerBody(id)
    \/ Tick

LiveSpec == Init /\ [][LiveNext]_vars /\ Fairness

\* --------------------------------------------------- src/unnamed/part_000
\* The HTTP shell: the status code a handler writes for what the Machine
\* returned to it.  errors.Is matches the sentinel errors; the wrapped error
\* of generateJobID matches none of them.

\* mutant of handleStartJob: the case of ErrJobIDExists is missing
handleStartJob_NoConflict(err) ==
    IF err = ErrNone THEN 202
    ELSE IF err = ErrMachineBusy THEN 503
    ELSE IF err = ErrUnsupportedProduct THEN 400
    ELSE 500

\* handleStartJob, from the return of s.machine.StartJob
handleStartJob(err) ==
    IF err = ErrNone THEN 202
    ELSE IF err = ErrMachineBusy THEN 503
    ELSE IF err = ErrUnsupportedProduct THEN 400
    ELSE IF err = ErrJobIDExists THEN 409
    ELSE 500

\* handleRetrieveJob, from the return of s.machine.RetrieveJob
handleRetrieveJob(err) ==
    IF err = ErrNone THEN 200
    ELSE IF err = ErrJobNotFound THEN 404
    ELSE IF err = ErrJobNotReady THEN 503
    ELSE IF err = ErrJobAlreadyRetrieved THEN 410
    ELSE 500

\* ------------------------------------------------------------------ History
\* mutant of History: retrieved jobs are left out of the snapshot
History_OnlyUnretrieved ==
    LET known == SelectSeq(history,
                           LAMBDA id : id \in DOMAIN jobs /\ jobs[id].JobRetrieved = <<>>)
    IN [ i \in 1..Len(known) |-> jobs[known[i]] ]

\* History: the copies of the jobs named by m.history, in its order, skipping
\* an id the map does not hold
History ==
    LET known == SelectSeq(history, LAMBDA id : id \in DOMAIN jobs)
    IN [ i \in 1..Len(known) |-> jobs[known[i]] ]

\* History up to m.mu.Lock()
HistoryEnter(c) ==
    /\ pc[c] = "idle"
    /\ call' = [ call EXCEPT ![c] = [ op |-> "History", product |-> "", jobID |-> "" ] ]
    /\ pc' = [ pc EXCEPT ![c] = "lock" ]
    /\ ret' = [ ret EXCEPT ![c] = NoRet ]
    /\ UNCHANGED <<machine, mu, now, timers>>

\* mutant of HistoryBody: the call hands the history out and empties it
HistoryBody_Drain(c) ==
    /\ pc[c] = "crit"
    /\ call[c].op = "History"
    /\ mu = <<"caller", c>>
    /\ mu' = Free
    /\ ret' = [ ret EXCEPT ![c] =
                 [ op |-> "History", product |-> "", jobID |-> "", err |-> ErrNone,
                   job |-> ZeroJob, state |-> StateAvailable, list |-> History ] ]
    /\ call' = [ call EXCEPT ![c] = NoCall ]
    /\ pc' = [ pc EXCEPT ![c] = "idle" ]
    /\ history' = << >>
    /\ UNCHANGED <<state, jobs, currentJob, readyJob, now, timers>>

\* History from the copy loop to the return, the deferred Unlock included;
\* the caller's ret gets the field list, the returned []Job
HistoryBody(c) ==
    /\ pc[c] = "crit"
    /\ call[c].op = "History"
    /\ mu = <<"caller", c>>
    /\ mu' = Free
    /\ ret' = [ ret EXCEPT ![c] =
                 [ op |-> "History", product |-> "", jobID |-> "", err |-> ErrNone,
                   job |-> ZeroJob, state |-> StateAvailable, list |-> History ] ]
    /\ call' = [ call EXCEPT ![c] = NoCall ]
    /\ pc' = [ pc EXCEPT ![c] = "idle" ]
    /\ UNCHANGED <<machine, now, timers>>

\* The machine with one caller that admits and retrieves while the other
\* callers read the history.
HistNext ==
    \/ StartJobEnter(Worker)
    \/ RetrieveJobEnter(Worker)
    \/ \E c \in Callers \ { Worker } : HistoryEnter(c)
    \/ \E c \in Callers : Acquire(c)
    \/ StartJobBody(Worker)
    \/ RetrieveJobBody(Worker)
    \/ \E c \in Callers \ { Worker } : HistoryBody(c)
    \/ \E id \in JobIDs : TimerAcquire(id)
    \/ \E id \in JobIDs : TimerBody(id)
    \/ Tick

HistSpec == Init /\ [][HistNext]_vars

\* -------------------------------------------------------------------- Ready
\* Ready up to m.mu.Lock()
ReadyEnter(c) ==
    /\ pc[c] = "idle"
    /\ call' = [ call EXCEPT ![c] = [ op |-> "Ready", product |-> "", jobID |-> "" ] ]
    /\ pc' = [ pc EXCEPT ![c] = "lock" ]
    /\ ret' = [ ret EXCEPT ![c] = NoRet ]
    /\ UNCHANGED <<machine, mu, now, timers>>

\* Ready: return m.state == StateAvailable, the deferred Unlock included; the
\* caller's ret gets the field ready, the returned bool
ReadyBody(c) ==
    /\ pc[c] = "crit"
    /\ call[c].op = "Ready"
    /\ mu = <<"caller", c>>
    /\ mu' = Free
    /\ ret' = [ ret EXCEPT ![c] =
                 [ op |-> "Ready", product |-> "", jobID |-> "", err |-> ErrNone,
                   job |-> ZeroJob, state |-> StateAvailable,
                   ready |-> (state = StateAvailable) ] ]
    /\ call' = [ call EXCEPT ![c] = NoCall ]
    /\ pc' = [ pc EXCEPT ![c] = "idle" ]
    /\ UNCHANGED <<machine, now, timers>>

\* ------------------------------------------- the handlers of part_000
\* A request to /retrieve-job carries the query parameters jobID and jobId
\* ("" when absent).  A handler that answers without calling the Machine puts
\* [op, code, body, query] in the caller's ret; one that calls the Machine keeps
\* the query in call, and its answer is handleStartJob / handleRetrieveJob /
\* handleStatus / handleReadyz of what the Machine returns.
Queries ==
    { [ jobID |-> a, jobId |-> b ] : a, b \in { "", "job-1", "u1" } }
        \cup { [ jobID |-> "", jobId |-> "legacy" ] }
NoQuery == [ jobID |-> "", jobId |-> "" ]

\* http.Error(w, body, code) and the return, without a call of the Machine
Respond(c, handler, code, body, query) ==
    /\ ret' = [ ret EXCEPT ![c] =
                 [ op |-> handler, product |-> "", jobID |-> "", err |-> ErrNone,
                   job |-> ZeroJob, state |-> StateAvailable,
                   code |-> code, body |-> body, query |-> query ] ]
    /\ call' = [ call EXCEPT ![c] = NoCall ]
    /\ pc' = [ pc EXCEPT ![c] = "idle" ]

\* handleRetrieveJob: jobID := r.URL.Query().Get("jobId")
QueryJobID(query) == query.jobId

\* handleStartJob up to the Lock() of s.machine.StartJob: method and payload
\* checks, then StartJob's own product check
handleStartJobEnter(c) ==
    \E method \in { "POST", "GET" }, decoded \in BOOLEAN :
        IF method # "POST"
        THEN /\ pc[c] = "idle"
             /\ Respond(c, "handleStartJob", 405, "method not allowed", NoQuery)
             /\ UNCHANGED <<machine, mu, now, timers>>
        ELSE IF ~decoded
        THEN /\ pc[c] = "idle"
             /\ Respond(c, "handleStartJob", 400, "invalid payload", NoQuery)
             /\ UNCHANGED <<machine, mu, now, timers>>
        ELSE StartJobEnter(c)

\* handleRetrieveJob up to the Lock() of s.machine.RetrieveJob
handleRetrieveJobEnter(c) ==
    /\ pc[c] = "idle"
    /\ UNCHANGED <<machine, mu, now, timers>>
    /\ \E query \in Queries :
         LET jobID == QueryJobID(query) IN
         IF jobID = ""
         THEN Respond(c, "handleRetrieveJob", 400, "missing jobId", query)
         ELSE /\ call' = [ call EXCEPT ![c] =
                             [ op |-> "RetrieveJob", product |-> "", jobID |-> jobID,
                               query |-> query ] ]
              /\ pc' = [ pc EXCEPT ![c] = "lock" ]
              /\ ret' = [ ret EXCEPT ![c] = NoRet ]

\* handleHealthz
handleHealthz(c) ==
    /\ pc[c] = "idle"
    /\ Respond(c, "handleHealthz", 200, "ok", NoQuery)
    /\ UNCHANGED <<machine, mu, now, timers>>

\* mutant of handleStatus: only a Brewing machine is reported as busy
handleStatus_OnlyBrewing(st) == IF st = StateBrewing THEN 503 ELSE 200

\* handleStatus, from the return of s.machine.Status
handleStatus(st) == IF st # StateAvailable THEN 503 ELSE 200

\* handleReadyz, from the return of s.machine.Ready
handleReadyz(ready) == IF ready THEN 200 ELSE 503

\* The shell in front of the Machine: one caller posts and fetches jobs, the
\* other callers ask /status, /readyz, /healthz and /history.
ShellNext ==
    \/ handleStartJobEnter(Worker)
    \/ handleRetrieveJobEnter(Worker)
    \/ \E c \in Callers \ { Worker } : StatusEnter(c)
    \/ \E c \in Callers \ { Worker } : ReadyEnter(c)
    \/ \E c \in Callers \ { Worker } : HistoryEnter(c)
    \/ \E c \in Callers \ { Worker } : handleHealthz(c)
    \/ \E c \in Callers : Acquire(c)
    \/ StartJobBody(Worker)
    \/ RetrieveJobBody(Worker)
    \/ \E c \in Callers \ { Worker } : StatusBody(c)
    \/ \E c \in Callers \ { Worker } : ReadyBody(c)
    \/ \E c \in Callers \ { Worker } : HistoryBody(c)
    \/ \E id \in JobIDs : TimerAcquire(id)
    \/ \E id \in JobIDs : TimerBody(id)
    \/ Tick

ShellSpec == Init /\ [][ShellNext]_vars

\* ------------------------------------------------- all operations, fairly
\* The Machine with every operation: one caller admits and retrieves, the
\* other callers call Status, Ready and History.
OpsNext ==
    \/ StartJobEnter(Worker)
    \/ RetrieveJobEnter(Worker)
    \/ \E c \in Callers \ { Worker } : StatusEnter(c)
    \/ \E c \in Callers \ { Worker } : ReadyEnter(c)
    \/ \E c \in Callers \ { Worker } : HistoryEnter(c)
    \/ \E c \in Callers : Acquire(c)
    \/ StartJobBody(Worker)
    \/ RetrieveJobBody(Worker)
    \/ \E c \in Callers \ { Worker } : StatusBody(c)
    \/ \E c \in Callers \ { Worker } : ReadyBody(c)
    \/ \E c \in Callers \ { Worker } : HistoryBody(c)
    \/ \E id \in JobIDs : TimerAcquire(id)
    \/ \E id \in JobIDs : TimerBody(id)
    \/ Tick

\* Scheduling of the goroutines that are not asleep: one that holds the mutex
\* runs to its Unlock, and a caller waiting in Lock() gets the mutex.  Nothing
\* is assumed about the clock or about a timer's wake-up.
CallerFairness ==
    /\ \A c \in Callers :
         /\ SF_vars(Acquire(c))
         /\ WF_vars(StartJobBody(c) \/ RetrieveJobBody(c) \/ StatusBody(c)
                      \/ ReadyBody(c) \/ HistoryBody(c))
    /\ \A id \in JobIDs : WF_vars(TimerBody(id))

PendingSpec == Init /\ [][OpsNext]_vars /\ CallerFairness

\* ============================================================= src/main.go
\* The Machine of src/main.go, whose methods are the HTTP handlers.  Its jobs
\* map, history slice and currentJob hold *Job pointers: here a pointer is the
\* position of the Job in history (every Job ever allocated is appended there),
\* 0 is nil, jobs maps a JobID to a pointer, currentJob is a pointer and the
\* timers are keyed by the pointer their goroutine was started with.  A caller's
\* ret is [op, product, jobID, code, job]: the HTTP status and the encoded Job.

\* brewDuration := 30 * time.Second; the clock of this machine counts in units
\* of 30 seconds
Main_brewDuration == 1

\* no new StartJob request once this many Jobs have been allocated
Main_MaxJobs == 2

Main_Methods == { "POST", "GET" }
Main_RetrieveIDs == { "", "job-1", "u1" }
Main_Pointers == 1..(MaxTime + 1)

\* Job{} as encoded when a handler answers with http.Error
Main_NoJob == ZeroJob

Main_Init ==
    /\ state = StateAvailable
    /\ jobs = << >>
    /\ history = << >>
    /\ currentJob = 0
    /\ readyJob = ""
    /\ mu = Free
    /\ now = 0
    /\ timers = << >>
    /\ pc = [ c \in Callers |-> "idle" ]
    /\ call = [ c \in Callers |-> NoCall ]
    /\ ret = [ c \in Callers |-> NoRet ]

\* the handler writes its response and returns
Main_Respond(c, args, code, job) ==
    /\ ret' = [ ret EXCEPT ![c] =
                 [ op |-> args.op, product |-> args.product, jobID |-> args.jobID,
                   code |-> code, job |-> job ] ]
    /\ call' = [ call EXCEPT ![c] = NoCall ]
    /\ pc' = [ pc EXCEPT ![c] = "idle" ]

\* StartJob up to m.mu.Lock(): method, body and product checks
Main_StartJobEnter(c) ==
    /\ pc[c] = "idle"
    /\ Len(history) < Main_MaxJobs
    /\ UNCHANGED <<machine, mu, now, timers>>
    /\ \E method \in Main_Methods, decoded \in BOOLEAN,
          product \in ProductInputs, jobID \in StartIDs :
         LET req == [ op |-> "StartJob", product |-> product, jobID |-> jobID ]
             none == [ op |-> "StartJob", product |-> "", jobID |-> "" ]
         IN
         IF method # "POST"
         THEN Main_Respond(c, none, 405, Main_NoJob)
         ELSE IF ~decoded
         THEN Main_Respond(c, none, 400, Main_NoJob)
         ELSE IF product \notin supportedProducts
         THEN Main_Respond(c, req, 400, Main_NoJob)
         ELSE /\ pc' = [ pc EXCEPT ![c] = "lock" ]
              /\ call' = [ call EXCEPT ![c] = req ]
              /\ ret' = [ ret EXCEPT ![c] = NoRet ]

\* StartJob from the busy check to the return, the deferred Unlock included
Main_StartJobBody(c) ==
    /\ pc[c] = "crit"
    /\ call[c].op = "StartJob"
    /\ mu = <<"caller", c>>
    /\ mu' = Free
    /\ UNCHANGED <<now, readyJob>>
    /\ IF state # StateAvailable
       THEN /\ Main_Respond(c, call[c], 503, Main_NoJob)
            /\ UNCHANGED <<state, jobs, history, currentJob, timers>>
       ELSE \E gen \in UUIDs :
              LET jobID == IF call[c].jobID = "" THEN gen ELSE call[c].jobID
                  job == [ JobID |-> jobID,
                           Product |-> call[c].product,
                           JobStarted |-> now,
                           JobReady |-> now + Main_brewDuration,
                           JobRetrieved |-> <<>> ]
                  \* job := &Job{...}
                  ptr == Len(history) + 1
              IN /\ jobs' = MapPut(jobs, jobID, ptr)
                 /\ history' = Append(history, job)
                 /\ currentJob' = ptr
                 /\ state' = StateBrewing
                 \* go func(j *Job) {...}(job)
                 /\ timers' = MapPut(timers, ptr,
                                     [ pc |-> "sleep", wake |-> now + Main_brewDuration,
                                       set |-> FALSE ])
                 /\ Main_Respond(c, call[c], 200, job)

\* RetrieveJob up to m.mu.Lock(): the query parameter jobID
Main_RetrieveJobEnter(c) ==
    /\ pc[c] = "idle"
    /\ UNCHANGED <<machine, mu, now, timers>>
    /\ \E jobID \in Main_RetrieveIDs :
         LET req == [ op |-> "RetrieveJob", product |-> "", jobID |-> jobID ] IN
         IF jobID = ""
         THEN Main_Respond(c, req, 400, Main_NoJob)
         ELSE /\ pc' = [ pc EXCEPT ![c] = "lock" ]
              /\ call' = [ call EXCEPT ![c] = req ]
              /\ ret' = [ ret EXCEPT ![c] = NoRet ]

\* RetrieveJob from the lookup to the return, the deferred Unlock included
Main_RetrieveJobBody(c) ==
    /\ pc[c] = "crit"
    /\ call[c].op = "RetrieveJob"
    /\ mu = <<"caller", c>>
    /\ mu' = Free
    /\ UNCHANGED <<now, timers, jobs, readyJob>>
    /\ LET jobID == call[c].jobID IN
       IF jobID \notin DOMAIN jobs
       THEN /\ Main_Respond(c, call[c], 404, Main_NoJob)
            /\ UNCHANGED <<state, history, currentJob>>
       ELSE LET ptr == jobs[jobID] IN
            IF history[ptr].JobRetrieved # <<>>
            THEN /\ Main_Respond(c, call[c], 410, Main_NoJob)
                 /\ UNCHANGED <<state, history, currentJob>>
            ELSE IF now < history[ptr].JobReady
            THEN /\ Main_Respond(c, call[c], 503, Main_NoJob)
                 /\ UNCHANGED <<state, history, currentJob>>
            ELSE /\ history' = [ history EXCEPT ![ptr].JobRetrieved = <<now>> ]
                 /\ IF currentJob = ptr
                    THEN /\ currentJob' = 0
                         /\ state' = StateAvailable
                    ELSE UNCHANGED <<state, currentJob>>
                 /\ Main_Respond(c, call[c], 200, history'[ptr])

\* the goroutine of StartJob: time.Sleep(brewDuration) is over and
\* m.mu.Lock() returns
Main_TimerAcquire(ptr) ==
    /\ ptr \in DOMAIN timers
    /\ timers[ptr].pc = "sleep"
    /\ now >= timers[ptr].wake
    /\ mu = Free
    /\ mu' = <<"timer", ptr>>
    /\ timers' = [ timers EXCEPT ![ptr].pc = "crit" ]
    /\ UNCHANGED <<machine, now, pc, call, ret>>

\* the goroutine of StartJob: if m.currentJob == j { m.state = StateBlocked }
Main_TimerBody(ptr) ==
    /\ ptr \in DOMAIN timers
    /\ timers[ptr].pc = "crit"
    /\ mu = <<"timer", ptr>>
    /\ mu' = Free
    /\ IF currentJob = ptr
       THEN /\ state' = StateBlocked
            /\ timers' = [ timers EXCEPT ![ptr].pc = "done", ![ptr].set = TRUE ]
       ELSE /\ UNCHANGED state
            /\ timers' = [ timers EXCEPT ![ptr].pc = "done" ]
    /\ UNCHANGED <<jobs, history, currentJob, readyJob, now, pc, call, ret>>

Main_Next ==
    \/ \E c \in Callers : Main_StartJobEnter(c)
    \/ \E c \in Callers : Main_RetrieveJobEnter(c)
    \/ \E c \in Callers : Acquire(c)
    \/ \E c \in Callers : Main_StartJobBody(c)
    \/ \E c \in Callers : Main_RetrieveJobBody(c)
    \/ \E ptr \in Main_Pointers : Main_TimerAcquire(ptr)
    \/ \E ptr \in Main_Pointers : Main_TimerBody(ptr)
    \/ Tick

MainSpec == Main_Init /\ [][Main_Next]_vars

\* ======================================================== src/Changelog.md
\* The Machine of src/Changelog.md: mu is a sync.RWMutex, there is no history
\* slice (history stays empty), and currentJob and readyJob are *Job pointers
\* that the code compares by JobID; the jobs map holds one Job per JobID, so a
\* pointer is modelled as the JobID ("" is nil).  mu is <<"readers", S>> while
\* the callers of S hold the read lock.

CL_ErrUnsupportedProduct == "unsupported product"
CL_ErrNotAvailable == "machine is not available"
CL_ErrIDExists == "job ID already exists"
CL_ErrNotFound == "job not found"
CL_ErrAlreadyRetrieved == "job already retrieved"
CL_ErrNotReady == "job not ready yet"

\* generateUUID when rand.Read fails: fmt.Sprintf("%d-%d", UnixNano, len(jobs))
CL_FallbackID == ToString(now) \o "-" \o ToString(Cardinality(DOMAIN jobs))

\* the orders in which "for _, job := range m.jobs" may visit the map
CL_MapOrders ==
    { f \in [ 1..Cardinality(DOMAIN jobs) -> DOMAIN jobs ] :
        \A i, j \in DOMAIN f : f[i] = f[j] => i = j }

\* StartJob, RetrieveJob and GetAllJobs up to their m.mu.Lock() / m.mu.RLock()
CL_StartJobEnter(c) ==
    /\ pc[c] = "idle"
    \* no new StartJob once a brew might not end within the clock's range
    /\ now + MaxBrew <= MaxTime
    /\ \E product \in ProductInputs, jobID \in StartIDs :
         call' = [ call EXCEPT ![c] =
                     [ op |-> "StartJob", product |-> product, jobID |-> jobID ] ]
    /\ pc' = [ pc EXCEPT ![c] = "lock" ]
    /\ ret' = [ ret EXCEPT ![c] = NoRet ]
    /\ UNCHANGED <<machine, mu, now, timers>>

CL_RetrieveJobEnter(c) ==
    /\ pc[c] = "idle"
    /\ \E jobID \in RetrieveIDs :
         call' = [ call EXCEPT ![c] =
                     [ op |-> "RetrieveJob", product |-> "", jobID |-> jobID ] ]
    /\ pc' = [ pc EXCEPT ![c] = "lock" ]
    /\ ret' = [ ret EXCEPT ![c] = NoRet ]
    /\ UNCHANGED <<machine, mu, now, timers>>

CL_GetAllJobsEnter(c) ==
    /\ pc[c] = "idle"
    /\ call' = [ call EXCEPT ![c] =
                   [ op |-> "GetAllJobs", product |-> "", jobID |-> "" ] ]
    /\ pc' = [ pc EXCEPT ![c] = "rlock" ]
    /\ ret' = [ ret EXCEPT ![c] = NoRet ]
    /\ UNCHANGED <<machine, mu, now, timers>>

\* m.mu.RLock() returns: no writer holds the mutex
CL_RLock(c) ==
    /\ pc[c] = "rlock"
    /\ \/ mu = Free
       \/ mu # Free /\ mu[1] = "readers"
    /\ mu' = <<"readers", (IF mu = Free THEN {} ELSE mu[2]) \cup { c }>>
    /\ pc' = [ pc EXCEPT ![c] = "rcrit" ]
    /\ UNCHANGED <<machine, now, timers, call, ret>>

\* StartJob from the product check to the return, the deferred Unlock included
CL_StartJobBody(c) ==
    /\ pc[c] = "crit"
    /\ call[c].op = "StartJob"
    /\ mu = <<"caller", c>>
    /\ mu' = Free
    /\ UNCHANGED <<now, history, readyJob>>
    /\ IF call[c].product \notin supportedProducts
       THEN /\ Return(c, call[c], CL_ErrUnsupportedProduct, ZeroJob, StateAvailable)
            /\ UNCHANGED <<state, jobs, currentJob, timers>>
       ELSE IF state # StateAvailable
       THEN /\ Return(c, call[c], CL_ErrNotAvailable, ZeroJob, StateAvailable)
            /\ UNCHANGED <<state, jobs, currentJob, timers>>
       ELSE \E gen \in UUIDs \cup { CL_FallbackID } :
              LET jobID == IF call[c].jobID # "" THEN call[c].jobID ELSE gen IN
              IF jobID \in DOMAIN jobs
              THEN /\ Return(c, call[c], CL_ErrIDExists, ZeroJob, StateAvailable)
                   /\ UNCHANGED <<state, jobs, currentJob, timers>>
              ELSE \E brewingTime \in BrewTimes :
                     LET job == [ JobID |-> jobID,
                                  Product |-> call[c].product,
                                  JobStarted |-> now,
                                  JobReady |-> now + brewingTime,
                                  JobRetrieved |-> <<>> ]
                     IN /\ jobs' = MapPut(jobs, jobID, job)
                        /\ currentJob' = jobID
                        /\ state' = StateBrewing
                        \* go m.completeBrewing(job, brewingTime)
                        /\ timers' = MapPut(timers, jobID,
                                            [ pc |-> "sleep", wake |-> now + brewingTime,
                                              set |-> FALSE ])
                        /\ Return(c, call[c], ErrNone, job, StateAvailable)

\* RetrieveJob from the lookup to the return, the deferred Unlock included
CL_RetrieveJobBody(c) ==
    /\ pc[c] = "crit"
    /\ call[c].op = "RetrieveJob"
    /\ mu = <<"caller", c>>
    /\ mu' = Free
    /\ UNCHANGED <<now, timers, history, currentJob>>
    /\ LET jobID == call[c].jobID IN
       IF jobID \notin DOMAIN jobs
       THEN /\ Return(c, call[c], CL_ErrNotFound, ZeroJob, StateAvailable)
            /\ UNCHANGED <<state, jobs, readyJob>>
       ELSE IF jobs[jobID].JobRetrieved # <<>>
       THEN /\ Return(c, call[c], CL_ErrAlreadyRetrieved, ZeroJob, StateAvailable)
            /\ UNCHANGED <<state, jobs, readyJob>>
       ELSE IF now < jobs[jobID].JobReady
       THEN /\ Return(c, call[c], CL_ErrNotReady, ZeroJob, StateAvailable)
            /\ UNCHANGED <<state, jobs, readyJob>>
       ELSE LET job == [ jobs[jobID] EXCEPT !.JobRetrieved = <<now>> ] IN
            /\ jobs' = [ jobs EXCEPT ![jobID] = job ]
            /\ IF readyJob # "" /\ readyJob = jobID
               THEN /\ readyJob' = ""
                    /\ state' = StateAvailable
               ELSE UNCHANGED <<state, readyJob>>
            /\ Return(c, call[c], ErrNone, job, StateAvailable)

\* GetAllJobs from the range loop to the return, the deferred RUnlock
\* included; the caller's ret gets the field list, the returned []*Job
CL_GetAllJobsBody(c) ==
    /\ pc[c] = "rcrit"
    /\ call[c].op = "GetAllJobs"
    /\ mu # Free /\ mu[1] = "readers" /\ c \in mu[2]
    /\ mu' = IF mu[2] = { c } THEN Free ELSE <<"readers", mu[2] \ { c }>>
    /\ \E order \in CL_MapOrders :
         ret' = [ ret EXCEPT ![c] =
                   [ op |-> "GetAllJobs", product |-> "", jobID |-> "", err |-> ErrNone,
                     job |-> ZeroJob, state |-> StateAvailable, list |-> order ] ]
    /\ call' = [ call EXCEPT ![c] = NoCall ]
    /\ pc' = [ pc EXCEPT ![c] = "idle" ]
    /\ UNCHANGED <<machine, now, timers>>

\* completeBrewing: the check, the transition and the deferred Unlock
\* (its Sleep and Lock are TimerAcquire)
CL_completeBrewing(id) ==
    /\ id \in DOMAIN timers
    /\ timers[id].pc = "crit"
    /\ mu = <<"timer", id>>
    /\ mu' = Free
    /\ IF currentJob # "" /\ currentJob = id
       THEN /\ currentJob' = ""
            /\ readyJob' = id
            /\ state' = StateBlocked
            /\ timers' = [ timers EXCEPT ![id].pc = "done", ![id].set = TRUE ]
       ELSE /\ UNCHANGED <<state, currentJob, readyJob>>
            /\ timers' = [ timers EXCEPT ![id].pc = "done" ]
    /\ UNCHANGED <<jobs, history, now, pc, call, ret>>

CL_Next ==
    \/ \E c \in Callers : CL_StartJobEnter(c)
    \/ \E c \in Callers : CL_RetrieveJobEnter(c)
    \/ \E c \in Callers : CL_GetAllJobsEnter(c)
    \/ \E c \in Callers : Acquire(c)
    \/ \E c \in Callers : CL_RLock(c)
    \/ \E c \in Callers : CL_StartJobBody(c)
    \/ \E c \in Callers : CL_RetrieveJobBody(c)
    \/ \E c \in Callers : CL_GetAllJobsBody(c)
    \/ \E id \in DOMAIN timers : TimerAcquire(id)
    \/ \E id \in DOMAIN timers : CL_completeBrewing(id)
    \/ Tick

ChangelogSpec == Init /\ [][CL_Next]_vars

\* ------------------------------------------- src/Changelog.md: the handlers
\* handleStartJob, handleRetrieveJob and handleHistory around the Machine.
\* StartJob and RetrieveJob return a *Job and GetAllJobs a []*Job: pointers
\* to the records of m.jobs.  A handler whose call has returned without error
\* and whose response is not yet written is inside
\* json.NewEncoder(w).Encode, which reads the fields of those records after
\* the Machine's lock was released; its ret has no field body yet.
CL_Encoding(c) ==
    /\ pc[c] = "idle"
    /\ ret[c].op \in { "StartJob", "RetrieveJob", "GetAllJobs" }
    /\ ret[c].err = ErrNone
    /\ "body" \notin DOMAIN ret[c]

\* the records of m.jobs behind the pointers the handler of c holds
CL_Refs(c) ==
    IF ret[c].op = "GetAllJobs"
    THEN { ret[c].list[i] : i \in DOMAIN ret[c].list }
    ELSE { ret[c].job.JobID }

CL_Methods == { "GET", "POST" }

\* handleStartJob up to the Lock() of machine.StartJob
CL_handleStartJobEnter(c) ==
    /\ ~CL_Encoding(c)
    /\ \E method \in CL_Methods, decoded \in BOOLEAN :
         IF method # "POST"
         THEN /\ pc[c] = "idle"
              /\ Respond(c, "handleStartJob", 405, "Method not allowed", NoQuery)
              /\ UNCHANGED <<machine, mu, now, timers>>
         ELSE IF ~decoded
         THEN /\ pc[c] = "idle"
              /\ Respond(c, "handleStartJob", 400, "Invalid request", NoQuery)
              /\ UNCHANGED <<machine, mu, now, timers>>
         ELSE CL_StartJobEnter(c)

\* handleRetrieveJob up to the Lock() of machine.RetrieveJob
CL_handleRetrieveJobEnter(c) ==
    /\ ~CL_Encoding(c)
    /\ \E method \in CL_Methods, jobID \in RetrieveIDs \cup { "" } :
         IF method # "GET"
         THEN /\ pc[c] = "idle"
              /\ Respond(c, "handleRetrieveJob", 405, "Method not allowed", NoQuery)
              /\ UNCHANGED <<machine, mu, now, timers>>
         ELSE IF jobID = ""
         THEN /\ pc[c] = "idle"
              /\ Respond(c, "handleRetrieveJob", 400, "jobID parameter is required",
                         NoQuery)
              /\ UNCHANGED <<machine, mu, now, timers>>
         ELSE /\ CL_RetrieveJobEnter(c)
              /\ call'[c].jobID = jobID

\* handleHistory up to the RLock() of machine.GetAllJobs
CL_handleHistoryEnter(c) ==
    /\ ~CL_Encoding(c)
    /\ \E method \in CL_Methods :
         IF method # "GET"
         THEN /\ pc[c] = "idle"
              /\ Respond(c, "handleHistory", 405, "Method not allowed", NoQuery)
              /\ UNCHANGED <<machine, mu, now, timers>>
         ELSE CL_GetAllJobsEnter(c)

\* json.NewEncoder(w).Encode(job) / Encode(jobs): the body is what the records
\* behind the pointers hold when the encoder reads them
CL_Encode(c) ==
    /\ CL_Encoding(c)
    /\ LET body == IF ret[c].op = "GetAllJobs"
                   THEN [ i \in DOMAIN ret[c].list |-> jobs[ret[c].list[i]] ]
                   ELSE jobs[ret[c].job.JobID]
       IN ret' = [ ret EXCEPT ![c] = ret[c] @@ [ code |-> 200, body |-> body ] ]
    /\ UNCHANGED <<machine, mu, now, timers, pc, call>>

CL_ShellNext ==
    \/ \E c \in Callers : CL_handleStartJobEnter(c)
    \/ \E c \in Callers : CL_handleRetrieveJobEnter(c)
    \/ \E c \in Callers : CL_handleHistoryEnter(c)
    \/ \E c \in Callers : Acquire(c)
    \/ \E c \in Callers : CL_RLock(c)
    \/ \E c \in Callers : CL_StartJobBody(c)
    \/ \E c \in Callers : CL_RetrieveJobBody(c)
    \/ \E c \in Callers : CL_GetAllJobsBody(c)
    \/ \E c \in Callers : CL_Encode(c)
    \/ \E id \in DOMAIN timers : TimerAcquire(id)
    \/ \E id \in DOMAIN timers : CL_completeBrewing(id)
    \/ Tick

CL_ShellSpec == Init /\ [][CL_ShellNext]_vars

\* ============================================================ brew durations
\* The duration computations of the two StartJob implementations that draw
\* one, applied to their inputs: the result of r.Intn for defaultBrewTime of
\* src/unnamed/part_001, the reading of time.Now().UnixNano() for StartJob of
\* src/Changelog.md.  A duration is kept as its number of seconds, the operand
\* of "* time.Second".  Here the clock is the wall clock in nanoseconds since
\* 1970-01-01T00:00:00Z, which is negative when the system clock is set
\* before that instant.
MaxClock == 40
ClockReadings == (0 - MaxClock)..MaxClock

minBrewSeconds == 20
maxBrewSeconds == 55
MinBrewingTime == 20
MaxBrewingTime == 55

\* Go's % on integers: the remainder of the division truncated toward zero,
\* which has the sign of the dividend
GoRem(a, b) == IF a >= 0 THEN a % b ELSE 0 - ((0 - a) % b)

\* r.Intn(n) returns a value of [0, n)
Intn(n) == 0..(n - 1)

\* defaultBrewTime: the seconds for the value v returned by r.Intn
defaultBrewTime(v) == v + minBrewSeconds

\* StartJob of src/Changelog.md: the seconds for the clock reading unixNano
CL_brewingTime(unixNano) ==
    MinBrewingTime + GoRem(unixNano, MaxBrewingTime - MinBrewingTime + 1)

BrewInit ==
    /\ state = StateAvailable
    /\ jobs = << >>
    /\ history = << >>
    /\ currentJob = ""
    /\ readyJob = ""
    /\ mu = Free
    /\ now \in ClockReadings
    /\ timers = << >>
    /\ pc = [ c \in Callers |-> "idle" ]
    /\ call = [ c \in Callers |-> NoCall ]
    /\ ret = [ c \in Callers |-> NoRet ]

\* brewDuration := m.brewTimeFn() with the default duration source
Brew_defaultBrewTime(c) ==
    /\ \E v \in Intn(maxBrewSeconds - minBrewSeconds + 1) :
         ret' = [ ret EXCEPT ![c] =
                   [ op |-> "defaultBrewTime", input |-> v,
                     seconds |-> defaultBrewTime(v) ] ]
    /\ UNCHANGED <<machine, mu, now, timers, pc, call>>

\* brewingTime := time.Duration(MinBrewingTime + int(UnixNano() % ...)) * time.Second
Brew_CL_brewingTime(c) ==
    /\ ret' = [ ret EXCEPT ![c] =
                 [ op |-> "CL_brewingTime", input |-> now,
                   seconds |-> CL_brewingTime(now) ] ]
    /\ UNCHANGED <<machine, mu, now, timers, pc, call>>

BrewNext ==
    \/ \E c \in Callers : Brew_defaultBrewTime(c)
    \/ \E c \in Callers : Brew_CL_brewingTime(c)

BrewSpec == BrewInit /\ [][BrewNext]_vars

\* ===================================================================== claims
\* Vocabulary of the claims.
Unretrieved == { id \in DOMAIN jobs : jobs[id].JobRetrieved = <<>> }
Retrieved == { id \in DOMAIN jobs : jobs[id].JobRetrieved # <<>> }
Admitted(c) == ret[c].op = "StartJob" /\ ret[c].err = ErrNone
Fetched(c) == ret[c].op = "RetrieveJob" /\ ret[c].err = ErrNone
\* the step in which caller c runs the critical section of op and returns
BodyStep(c, op) == pc[c] = "crit" /\ call[c].op = op /\ pc'[c] = "idle"
\* the step in which the timer of job id runs its critical section
TimerStep(id) ==
    /\ id \in DOMAIN timers
    /\ timers[id].pc = "crit"
    /\ timers'[id].pc = "done"
Index(id) == CHOOSE i \in 1..Len(history) : history[i] = id

\* C1: of StartJob calls that race for the machine at most one returns a Job:
\* two admissions are always separated by the retrieval of the earlier job, a
\* StartJob whose critical section runs while a job is unretrieved returns
\* ErrMachineBusy (ErrJobIDExists when the machine is idle and the id is taken)
\* and adds nothing, and an admission adds exactly one job to jobs and history.
C1_Separated ==
    \A a, b \in Callers :
        (a # b /\ Admitted(a) /\ Admitted(b)) =>
            LET ja == ret[a].job.JobID
                jb == ret[b].job.JobID
            IN /\ ja # jb
               /\ ja \in DOMAIN jobs /\ jb \in DOMAIN jobs
               /\ LET first == IF Index(ja) < Index(jb) THEN ja ELSE jb
                      second == IF Index(ja) < Index(jb) THEN jb ELSE ja
                  IN /\ jobs[first].JobRetrieved # <<>>
                     /\ jobs[first].JobRetrieved[1] <= jobs[second].JobStarted
C1_StartStep ==
    \A c \in Callers :
        BodyStep(c, "StartJob") =>
            /\ ret'[c].err \in { ErrNone, ErrMachineBusy, ErrJobIDExists, ErrGenerate }
            /\ Unretrieved # {} => ret'[c].err = ErrMachineBusy
            /\ ret'[c].err = ErrJobIDExists => call[c].jobID \in DOMAIN jobs \/ call[c].jobID = ""
            /\ IF ret'[c].err = ErrNone
               THEN /\ Unretrieved = {}
                    /\ ret'[c].job.JobID \notin DOMAIN jobs
                    /\ DOMAIN jobs' = DOMAIN jobs \cup { ret'[c].job.JobID }
                    /\ history' = Append(history, ret'[c].job.JobID)
               ELSE UNCHANGED <<machine, timers>>
\* C1: every step keeps admissions exclusive (the three parts above together).
C1_OneAdmission ==
    [][ C1_StartStep /\ C1_Separated' /\ Cardinality(Unretrieved') <= 1 ]_vars

\* C1 witness: one caller holds the Job of an admission and the other was
\* turned away as busy at the same clock reading, with that one job in history.
C1_Witness ==
    \E a, b \in Callers :
        /\ a # b
        /\ Admitted(a)
        /\ ret[b].op = "StartJob" /\ ret[b].err = ErrMachineBusy
        /\ history = << ret[a].job.JobID >>
        /\ ret[a].job.JobStarted = now

\* C2: at most one job is active, and currentJob never names a retrieved job:
\* currentJob, when set, is a job of the job set whose JobRetrieved is unset,
\* no other job is unretrieved, and the state is Brewing or Blocked only while
\* currentJob is set.
C2_OneActiveJob ==
    /\ currentJob # "" =>
          currentJob \in DOMAIN jobs /\ jobs[currentJob].JobRetrieved = <<>>
    /\ Unretrieved \subseteq { currentJob }
    /\ Cardinality(Unretrieved) <= 1
    /\ state \in { StateBrewing, StateBlocked } => currentJob # ""

\* C2 witness: a retrieved job and a later job that is the active one.
C2_Witness ==
    /\ Retrieved # {}
    /\ currentJob # ""
    /\ state = StateBrewing

\* C3 as stated: while a job is active the state is Brewing exactly until
\* JobReady elapses and Blocked from then on.
C3_Original ==
    currentJob \in DOMAIN jobs =>
        state = IF now < jobs[currentJob].JobReady THEN StateBrewing ELSE StateBlocked

\* C3 amended: the state is Brewing from the admission until the completion
\* timer has run, which is never before JobReady; it is Blocked from then
\* until the job is retrieved; it is Available when no job is active.  The
\* state changes only Available -> Brewing, Brewing -> Blocked, and Brewing or
\* Blocked -> Available.
C3_State ==
    /\ currentJob = "" => state = StateAvailable
    /\ currentJob # "" =>
          /\ currentJob \in DOMAIN jobs /\ currentJob \in DOMAIN timers
          /\ now < jobs[currentJob].JobReady => state = StateBrewing
          /\ timers[currentJob].pc # "done" => state = StateBrewing
          /\ timers[currentJob].pc = "done" =>
                state = StateBlocked /\ now >= jobs[currentJob].JobReady
C3_Order ==
    state' # state =>
        \/ state = StateAvailable /\ state' = StateBrewing /\ currentJob' # ""
        \/ state = StateBrewing /\ state' = StateBlocked /\ currentJob' = currentJob
        \/ state \in { StateBrewing, StateBlocked } /\ state' = StateAvailable
           /\ currentJob' = "" /\ jobs'[currentJob].JobRetrieved = <<now>>
           /\ now >= jobs[currentJob].JobReady
\* C3 amended: every step keeps the state tied to the current job and its
\* timer, and changes the state only in the order above.
C3_Lifecycle == [][ C3_State' /\ C3_Order ]_vars

\* C3 witness: the admitted job is ready and unretrieved, its timer has run and
\* the state is Blocked.
C3_Witness ==
    /\ state = StateBlocked
    /\ currentJob \in Unretrieved
    /\ now >= jobs[currentJob].JobReady

\* C4: a StartJob with a supported product whose critical section runs while
\* the state is Brewing or Blocked returns ErrMachineBusy and changes nothing;
\* while the state is Brewing or Blocked no job is added to jobs or history.
C4_BusyStep ==
    /\ \A c \in Callers :
          (BodyStep(c, "StartJob") /\ state \in { StateBrewing, StateBlocked }) =>
              /\ call[c].product \in supportedProducts
              /\ ret'[c].err = ErrMachineBusy
              /\ ret'[c].job = ZeroJob
              /\ UNCHANGED <<machine, timers>>
    /\ state \in { StateBrewing, StateBlocked } =>
          /\ DOMAIN jobs' = DOMAIN jobs
          /\ history' = history
          /\ DOMAIN timers' = DOMAIN timers
\* C4: every step rejects a StartJob that finds the state Brewing or Blocked.
C4_BusyRejects == [][ C4_BusyStep ]_vars

\* C4 witness: a StartJob was turned away as busy and the state is Blocked.
C4_Witness ==
    \E c \in Callers :
        /\ ret[c].op = "StartJob" /\ ret[c].err = ErrMachineBusy
        /\ ret[c].product \in supportedProducts
        /\ state = StateBlocked

\* C5: a RetrieveJob of an admitted job returns ErrJobNotReady while
\* now < JobReady; at or after JobReady the first one succeeds, whatever the
\* timer has done, sets JobRetrieved and returns the job; every later one
\* returns ErrJobAlreadyRetrieved.
C5_RetrieveStep ==
    \A c \in Callers :
        (BodyStep(c, "RetrieveJob") /\ call[c].jobID \in DOMAIN jobs) =>
            LET id == call[c].jobID IN
            /\ (id \in Unretrieved /\ now < jobs[id].JobReady) =>
                  /\ ret'[c].err = ErrJobNotReady
                  /\ jobs' = jobs
            /\ (id \in Unretrieved /\ now >= jobs[id].JobReady) =>
                  /\ ret'[c].err = ErrNone
                  /\ jobs'[id] = [ jobs[id] EXCEPT !.JobRetrieved = <<now>> ]
                  /\ ret'[c].job = jobs'[id]
            /\ id \in Retrieved =>
                  /\ ret'[c].err = ErrJobAlreadyRetrieved
                  /\ jobs' = jobs
\* C5: every RetrieveJob step of an admitted job is decided by now and JobReady.
C5_RetrieveByClock == [][ C5_RetrieveStep ]_vars

\* C5 witness: a job was retrieved at its JobReady time while its timer still
\* sleeps, and another caller's RetrieveJob of it returned
\* ErrJobAlreadyRetrieved.
C5_Witness ==
    \E a, b \in Callers :
        /\ Fetched(a)
        /\ ret[a].job.JobRetrieved = << ret[a].job.JobReady >>
        /\ timers[ret[a].job.JobID].pc = "sleep"
        /\ ret[b].op = "RetrieveJob" /\ ret[b].jobID = ret[a].job.JobID
        /\ ret[b].err = ErrJobAlreadyRetrieved

\* C6: RetrieveJob succeeds at most once per job: a success finds the job
\* unretrieved and leaves it retrieved, JobRetrieved is set by nothing else and a
\* retrieved record never changes again, every RetrieveJob of a retrieved job
\* returns ErrJobAlreadyRetrieved, and no two callers hold a successful
\* retrieval of the same job.
C6_Step ==
    /\ \A id \in Retrieved : id \in DOMAIN jobs' /\ jobs'[id] = jobs[id]
    /\ \A c \in Callers :
          BodyStep(c, "RetrieveJob") =>
              LET id == call[c].jobID IN
              /\ ret'[c].err = ErrNone =>
                    /\ id \in Unretrieved
                    /\ id \in Retrieved'
                    /\ ret'[c].job.JobID = id
              /\ id \in Retrieved => ret'[c].err = ErrJobAlreadyRetrieved
    /\ Retrieved' # Retrieved =>
          \E c \in Callers :
              /\ BodyStep(c, "RetrieveJob")
              /\ ret'[c].err = ErrNone
              /\ Retrieved' = Retrieved \cup { call[c].jobID }
C6_NoDouble ==
    \A a, b \in Callers :
        (a # b /\ Fetched(a) /\ Fetched(b)) => ret[a].job.JobID # ret[b].job.JobID
\* C6: every step keeps a job to at most one successful RetrieveJob.
C6_RetrievedOnce == [][ C6_Step /\ C6_NoDouble' ]_vars

\* C6 witness: two RetrieveJob calls of the same job returned at the same clock
\* reading, one with the job and one with ErrJobAlreadyRetrieved.
C6_Witness ==
    \E a, b \in Callers :
        /\ a # b
        /\ Fetched(a)
        /\ ret[a].job.JobRetrieved = << now >>
        /\ ret[b].op = "RetrieveJob" /\ ret[b].jobID = ret[a].jobID
        /\ ret[b].err = ErrJobAlreadyRetrieved

\* C7: the completion timer changes nothing but the state; it sets Blocked
\* exactly when its job is the current job and unretrieved (the state being
\* Brewing), and when its job was retrieved it changes nothing: it leaves
\* Available as it is and leaves a later job's Brewing as it is.
C7_Step ==
    \A id \in DOMAIN timers :
        TimerStep(id) =>
            /\ UNCHANGED <<jobs, history, currentJob>>
            /\ state' # state =>
                  /\ state' = StateBlocked /\ state = StateBrewing
                  /\ currentJob = id /\ id \in Unretrieved
            /\ (currentJob = id /\ id \in Unretrieved) => state' = StateBlocked
            /\ id \in Retrieved => state' = state
            /\ currentJob # id => state' = state
            /\ state = StateAvailable => state' = StateAvailable
            /\ timers'[id].set = (currentJob = id /\ id \in Unretrieved)
\* C7: every timer step assigns Blocked for its own active job and nothing else.
C7_StaleTimerHarmless == [][ C7_Step ]_vars

\* C7 witness: the timer of a retrieved job has run without assigning the
\* state, and a later job is Brewing with its own timer still asleep.
C7_Witness ==
    \E id \in DOMAIN timers :
        /\ timers[id].pc = "done" /\ ~timers[id].set
        /\ id \in Retrieved
        /\ currentJob \in DOMAIN timers /\ currentJob # id
        /\ timers[currentJob].pc = "sleep"
        /\ state = StateBrewing

\* an admitted job whose JobReady lies within the clock's range
InRange(id) == id \in DOMAIN jobs /\ jobs[id].JobReady <= MaxTime

C9_Rejected ==
    \A c \in Callers :
        /\ call[c].op = "StartJob" => call[c].product \in supportedProducts
        /\ (ret[c].op = "StartJob" /\ ret[c].product \notin supportedProducts) =>
              ret[c].err = ErrUnsupportedProduct /\ ret[c].job = ZeroJob
        /\ ret[c].err = ErrUnsupportedProduct =>
              ret[c].op = "StartJob" /\ ret[c].product \notin supportedProducts
C9_Step ==
    \A c \in Callers :
        (/\ ret'[c] # ret[c]
         /\ ret'[c].op = "StartJob"
         /\ ret'[c].product \notin supportedProducts) =>
            /\ pc[c] = "idle" /\ pc'[c] = "idle"
            /\ UNCHANGED <<machine, timers, mu>>
\* C9: every step rejects unsupported products without touching the machine.
C9_UnsupportedProduct == [][ C9_Rejected' /\ C9_Step ]_vars

\* C9 witness: an unsupported product was rejected and the machine is Blocked
\* on a job.
C9_Witness ==
    \E c \in Callers :
        /\ ret[c].op = "StartJob" /\ ret[c].product = "INVALID"
        /\ ret[c].err = ErrUnsupportedProduct
        /\ state = StateBlocked

\* C10: a RetrieveJob of an identifier that no successful StartJob accepted
\* (one that is not in history) returns ErrJobNotFound and the zero Job and
\* leaves state, currentJob, jobs, history and the timers unchanged.
C10_Step ==
    \A c \in Callers :
        (BodyStep(c, "RetrieveJob")
         /\ \A i \in 1..Len(history) : history[i] # call[c].jobID) =>
            /\ ret'[c].err = ErrJobNotFound
            /\ ret'[c].job = ZeroJob
            /\ UNCHANGED <<machine, timers>>
\* C10: every RetrieveJob step of an unknown identifier returns ErrJobNotFound.
C10_UnknownJob == [][ C10_Step ]_vars

\* C10 witness: RetrieveJob of an identifier that is in no job set returned
\* ErrJobNotFound while the machine brews another job.
C10_Witness ==
    \E c \in Callers :
        /\ ret[c].op = "RetrieveJob" /\ ret[c].err = ErrJobNotFound
        /\ ret[c].jobID \notin DOMAIN jobs
        /\ state = StateBrewing

\* C11: StartJob(KAKAO, "job-1") directly after the admission of "job-1", that
\* job still unretrieved, fails with ErrJobIDExists (the claim as stated).
C11_Original ==
    [][ \A c \in Callers :
          ( /\ BodyStep(c, "StartJob")
            /\ call[c].jobID = "job-1"
            /\ history = << "job-1" >>
            /\ "job-1" \in Unretrieved )
          => ret'[c].err = ErrJobIDExists ]_vars

\* C11: a StartJob that repeats a stored identifier always fails and changes
\* nothing; the busy check comes first, so it fails with ErrMachineBusy while
\* any job (the first "job-1" included) is unretrieved, and with ErrJobIDExists
\* only once the machine is free again.
C11_BusyBeforeConflict ==
    [][ \A c \in Callers :
          ( /\ BodyStep(c, "StartJob")
            /\ call[c].jobID # ""
            /\ call[c].jobID \in DOMAIN jobs )
          => /\ ret'[c].err =
                   IF Unretrieved # {} THEN ErrMachineBusy ELSE ErrJobIDExists
             /\ ret'[c].job = ZeroJob
             /\ UNCHANGED <<machine, timers>> ]_vars

\* C11 witness: the second StartJob(KAKAO, "job-1") has returned ErrMachineBusy
\* while the first "job-1" is the only job and is unretrieved.
C11_Witness ==
    \E c \in Callers :
        /\ ret[c].op = "StartJob" /\ ret[c].jobID = "job-1"
        /\ ret[c].product = "KAKAO"
        /\ ret[c].err = ErrMachineBusy
        /\ history = << "job-1" >>
        /\ jobs["job-1"].Product = "KAKAO"
        /\ "job-1" \in Unretrieved

\* C12: a StartJob whose critical section runs while the machine is Available
\* and that supplies an identifier of the job set returns ErrJobIDExists and
\* no Job; the state stays Available and the stored record, the history, the
\* active job and the timers are unchanged.
C12_Step ==
    \A c \in Callers :
        ( /\ BodyStep(c, "StartJob")
          /\ state = StateAvailable
          /\ call[c].jobID # ""
          /\ call[c].jobID \in DOMAIN jobs )
        => /\ ret'[c].err = ErrJobIDExists
           /\ ret'[c].job = ZeroJob
           /\ state' = StateAvailable
           /\ jobs'[call[c].jobID] = jobs[call[c].jobID]
           /\ jobs' = jobs
           /\ history' = history
           /\ currentJob' = currentJob
           /\ timers' = timers
C12_DuplicateWhenIdle == [][ C12_Step ]_vars

\* C12 witness: "job-1" was admitted and retrieved, the machine is Available,
\* and a second StartJob with "job-1" has returned ErrJobIDExists.
C12_Witness ==
    \E c \in Callers :
        /\ ret[c].op = "StartJob" /\ ret[c].jobID = "job-1"
        /\ ret[c].err = ErrJobIDExists
        /\ "job-1" \in Retrieved
        /\ history = << "job-1" >>
        /\ state = StateAvailable

\* C13: in the Machine of src/main.go no two entries of history have the same
\* JobID, and no step replaces the Job stored under a JobID of the jobs map.
C13_UniqueInHistory ==
    \A i, j \in 1..Len(history) :
        history[i].JobID = history[j].JobID => i = j
C13_NeverReplaced ==
    \A id \in DOMAIN jobs : id \in DOMAIN jobs' /\ jobs'[id] = jobs[id]
C13_Original == [][ C13_NeverReplaced /\ C13_UniqueInHistory' ]_vars

\* C14: History() returns one entry per successful StartJob in the order the
\* admissions committed, retrieved or not.  A History call returns the stored
\* record of every job of the job set exactly once, ordered by the clock
\* reading of the admission (no two admissions share one); a successful
\* StartJob appends its job to what History returns, and no other step adds,
\* removes or reorders its entries.
C14_Ids(list) == [ i \in 1..Len(list) |-> list[i].JobID ]
C14_ReadStep ==
    \A c \in Callers :
        BodyStep(c, "History") =>
            LET list == ret'[c].list IN
            /\ Len(list) = Cardinality(DOMAIN jobs)
            /\ \A id \in DOMAIN jobs : \E i \in 1..Len(list) : list[i] = jobs[id]
            /\ \A i, j \in 1..Len(list) :
                 i < j => list[i].JobStarted < list[j].JobStarted
            /\ UNCHANGED <<machine, timers>>
C14_WriteStep ==
    IF \E c \in Callers : BodyStep(c, "StartJob") /\ ret'[c].err = ErrNone
    THEN \E c \in Callers :
           /\ BodyStep(c, "StartJob")
           /\ C14_Ids(History') = Append(C14_Ids(History), ret'[c].job.JobID)
           /\ History'[Len(History')] = ret'[c].job
    ELSE C14_Ids(History') = C14_Ids(History)
C14_HistoryInAdmissionOrder == [][ C14_ReadStep /\ C14_WriteStep ]_vars

\* C14 witness: a History call has returned two entries, the first a retrieved
\* job and the second the job admitted after it, still unretrieved.
C14_Witness ==
    \E c \in Callers :
        /\ ret[c].op = "History"
        /\ Len(ret[c].list) = 2
        /\ ret[c].list[1].JobRetrieved # <<>>
        /\ ret[c].list[2].JobRetrieved = <<>>
        /\ ret[c].list[1].JobStarted < ret[c].list[2].JobStarted

\* C15: GetAllJobs of src/Changelog.md returns one entry per successful
\* StartJob, in admission order: the list it returns names every job of the
\* map once, an earlier admitted job (smaller JobStarted; no two admissions
\* share a clock reading) before a later one.
C15_Original ==
    [][ \A c \in Callers :
          ( pc[c] = "rcrit" /\ call[c].op = "GetAllJobs" /\ pc'[c] = "idle" )
          => LET list == ret'[c].list IN
             /\ Len(list) = Cardinality(DOMAIN jobs)
             /\ \A id \in DOMAIN jobs : \E i \in 1..Len(list) : list[i] = id
             /\ \A i, j \in 1..Len(list) :
                  i < j => jobs[list[i]].JobStarted < jobs[list[j]].JobStarted ]_vars

\* C17: in the Machine of src/Changelog.md a successful RetrieveJob of the job
\* that occupies the machine leaves it Available, and the machine is never
\* Brewing or Blocked while the job occupying it (currentJob or readyJob) has
\* JobRetrieved set, whichever of RetrieveJob and completeBrewing runs first.
C17_Occupant == IF currentJob # "" THEN currentJob ELSE readyJob
C17_FreedStep ==
    \A c \in Callers :
        ( /\ BodyStep(c, "RetrieveJob")
          /\ ret'[c].err = ErrNone
          /\ call[c].jobID = C17_Occupant )
        => state' = StateAvailable
C17_NotHeldByRetrieved ==
    state # StateAvailable =>
        /\ C17_Occupant \in DOMAIN jobs
        /\ jobs[C17_Occupant].JobRetrieved = <<>>
C17_Original == [][ C17_FreedStep /\ C17_NotHeldByRetrieved' ]_vars

\* C16: a successful RetrieveJob leaves the state Available (what Status and
\* Ready read) and currentJob empty, with the lock released; the state then
\* stays Available until a StartJob admits a job, and a StartJob that finds it
\* Available with an identifier that is not in the job set succeeds.
C16_RetrieveStep ==
    \A c \in Callers :
        ( BodyStep(c, "RetrieveJob") /\ ret'[c].err = ErrNone )
        => /\ state' = StateAvailable
           /\ currentJob' = ""
           /\ mu' = Free
C16_StaysFree ==
    ( state = StateAvailable /\ state' # StateAvailable )
    => \E c \in Callers : BodyStep(c, "StartJob") /\ ret'[c].err = ErrNone
C16_NextStart ==
    \A c \in Callers :
        ( /\ BodyStep(c, "StartJob")
          /\ state = StateAvailable
          /\ call[c].product \in supportedProducts
          /\ call[c].jobID # ""
          /\ call[c].jobID \notin DOMAIN jobs )
        => ret'[c].err = ErrNone /\ ret'[c].job.JobID = call[c].jobID
C16_FreedByRetrieval == [][ C16_RetrieveStep /\ C16_StaysFree /\ C16_NextStart ]_vars

\* C16 witness: one caller holds the job it retrieved and another the job
\* "job-1" it was admitted with at or after that retrieval.
C16_Witness ==
    \E a, b \in Callers :
        /\ Fetched(a)
        /\ Admitted(b)
        /\ ret[b].jobID = "job-1"
        /\ ret[a].job.JobID # "job-1"
        /\ ret[b].job.JobStarted >= ret[a].job.JobRetrieved[1]

\* C18: what an admission by caller c does in a step: it returns a Job with
\* the product and identifier of the call (an identifier that was not in the
\* job set, the generated one when none was supplied) and JobRetrieved unset,
\* stores it, appends its id to history, makes it the active job, sets the
\* state to Brewing and starts its timer.
C18_Admission(c) ==
    LET job == ret'[c].job
        id == job.JobID
    IN /\ ret'[c].err = ErrNone
       /\ job.Product = call[c].product
       /\ IF call[c].jobID # "" THEN id = call[c].jobID ELSE id \in UUIDs
       /\ id \notin DOMAIN jobs
       /\ job.JobRetrieved = <<>>
       /\ job.JobStarted = now
       /\ job.JobReady - now \in BrewTimes
       /\ jobs' = MapPut(jobs, id, job)
       /\ history' = Append(history, id)
       /\ currentJob' = id
       /\ state' = StateBrewing
       /\ id \notin DOMAIN timers
       /\ timers' = MapPut(timers, id,
                           [ pc |-> "sleep", wake |-> job.JobReady, set |-> FALSE ])
\* a StartJob that fails with err changes nothing
C18_Refusal(c, err) ==
    /\ ret'[c].err = err
    /\ ret'[c].job = ZeroJob
    /\ UNCHANGED <<machine, timers>>

C19_FailStep ==
    \A c \in Callers :
        ( BodyStep(c, "StartJob") /\ ret'[c].err = ErrGenerate )
        => /\ call[c].jobID = ""
           /\ state = StateAvailable
           /\ ret'[c].job = ZeroJob
           /\ mu' = Free
           /\ UNCHANGED <<state, currentJob, jobs, history, timers>>
C19_NoFallbackStep ==
    \A c \in Callers :
        ( BodyStep(c, "StartJob") /\ call[c].jobID = "" /\ ret'[c].err = ErrNone )
        => ret'[c].job.JobID \in UUIDs /\ DOMAIN jobs' \subseteq JobIDs
C19_MayFail ==
    \A c \in Callers :
        ( /\ pc[c] = "crit"
          /\ call[c].op = "StartJob"
          /\ call[c].jobID = ""
          /\ state = StateAvailable )
        => ENABLED ( StartJobBody(c) /\ ret'[c].err = ErrGenerate )
C19_GenerationFailure ==
    /\ [] C19_MayFail
    /\ [][ C19_FailStep /\ C19_NoFallbackStep ]_vars

\* C19 witness: a StartJob without identifier has returned the generator's
\* error on a machine that is Available after an earlier job; that job is
\* still the whole history and no timer is pending.
C19_Witness ==
    \E c \in Callers :
        /\ ret[c].op = "StartJob" /\ ret[c].jobID = ""
        /\ ret[c].err = ErrGenerate
        /\ ret[c].job = ZeroJob
        /\ state = StateAvailable /\ currentJob = ""
        /\ Len(history) = 1
        /\ \A id \in DOMAIN timers : timers[id].pc = "done"
        /\ mu = Free

\* C20: whatever call produced it, the shell answers ErrMachineBusy with 503,
\* ErrUnsupportedProduct with 400 and ErrJobIDExists with 409 on /start-job,
\* and ErrJobNotFound with 404, ErrJobAlreadyRetrieved with 410 and
\* ErrJobNotReady with 503 on /retrieve-job; none of them with 200 or 500.
C20_StatusCodes ==
    \A c \in Callers :
        /\ ret[c].op = "StartJob" =>
             LET code == handleStartJob(ret[c].err) IN
             /\ ret[c].err = ErrMachineBusy => code = 503
             /\ ret[c].err = ErrUnsupportedProduct => code = 400
             /\ ret[c].err = ErrJobIDExists => code = 409
             /\ ret[c].err \in { ErrMachineBusy, ErrUnsupportedProduct, ErrJobIDExists }
                  => code \notin { 200, 500 }
        /\ ret[c].op = "RetrieveJob" =>
             LET code == handleRetrieveJob(ret[c].err) IN
             /\ ret[c].err = ErrJobNotFound => code = 404
             /\ ret[c].err = ErrJobAlreadyRetrieved => code = 410
             /\ ret[c].err = ErrJobNotReady => code = 503
             /\ ret[c].err \in { ErrJobNotFound, ErrJobAlreadyRetrieved, ErrJobNotReady }
                  => code \notin { 200, 500 }

\* C20 witness: one caller's StartJob came back with ErrJobIDExists, answered
\* 409, while another's RetrieveJob came back with ErrJobAlreadyRetrieved,
\* answered 410.
C20_Witness ==
    \E a, b \in Callers :
        /\ ret[a].op = "StartJob" /\ ret[a].err = ErrJobIDExists
        /\ handleStartJob(ret[a].err) = 409
        /\ ret[b].op = "RetrieveJob" /\ ret[b].err = ErrJobAlreadyRetrieved
        /\ handleRetrieveJob(ret[b].err) = 410

\* C21: /retrieve-job takes the identifier from the query parameter jobID: a
\* request without it is answered 400 "missing jobID" at once and leaves the
\* machine alone, a request that reaches the Machine carries its jobID as the
\* identifier, and one whose jobID names a ready, unretrieved job gets 200 and
\* that job.
C21_Answered ==
    \A c \in Callers :
        ( pc[c] = "idle" /\ ret'[c] # ret[c] /\ ret'[c].op = "handleRetrieveJob" )
        => /\ ret'[c].query.jobID = ""
           /\ ret'[c].code = 400
           /\ ret'[c].body = "missing jobID"
           /\ UNCHANGED machine
C21_Forwarded ==
    \A c \in Callers :
        ( pc[c] = "idle" /\ pc'[c] = "lock" /\ call'[c].op = "RetrieveJob" )
        => /\ call'[c].query.jobID # ""
           /\ call'[c].jobID = call'[c].query.jobID
C21_Served ==
    \A c \in Callers :
        ( /\ BodyStep(c, "RetrieveJob")
          /\ call[c].query.jobID \in Unretrieved
          /\ now >= jobs[call[c].query.jobID].JobReady )
        => /\ handleRetrieveJob(ret'[c].err) = 200
           /\ ret'[c].job.JobID = call[c].query.jobID
C21_Original == [][ C21_Answered /\ C21_Forwarded /\ C21_Served ]_vars

\* C22: whatever state the machine is in when the handler reads it, /status
\* and /readyz answer 200 if it is Available and 503 if it is Brewing or
\* Blocked, and /healthz answers 200.
C22_Expected == IF state = StateAvailable THEN 200 ELSE 503
C22_Step ==
    \A c \in Callers :
        /\ BodyStep(c, "Status") => handleStatus(ret'[c].state) = C22_Expected
        /\ BodyStep(c, "Ready") => handleReadyz(ret'[c].ready) = C22_Expected
        /\ ( pc[c] = "idle" /\ ret'[c] # ret[c] /\ ret'[c].op = "handleHealthz" )
             => ret'[c].code = 200 /\ UNCHANGED machine
C22_Readiness ==
    [][ C22_Step /\ state \in { StateAvailable, StateBrewing, StateBlocked } ]_vars

\* C22 witness: /status has just been answered 503 by a Blocked machine.
C22_Witness ==
    \E c \in Callers :
        /\ ret[c].op = "Status"
        /\ ret[c].state = StateBlocked
        /\ handleStatus(ret[c].state) = 503
        /\ state = StateBlocked
        /\ pc[c] = "idle"

\* C23: a StartJob that returns ErrMachineBusy or ErrJobIDExists and a
\* RetrieveJob that returns ErrJobNotFound, ErrJobAlreadyRetrieved or
\* ErrJobNotReady returns no Job, leaves state, currentJob, every job record
\* and history as they were, starts no timer and hands the mutex back, so the
\* machine serves the next call as if the failed one had not been made.
C23_Failed(c) ==
    \/ /\ BodyStep(c, "StartJob")
       /\ ret'[c].err \in { ErrMachineBusy, ErrJobIDExists }
    \/ /\ BodyStep(c, "RetrieveJob")
       /\ ret'[c].err \in { ErrJobNotFound, ErrJobAlreadyRetrieved, ErrJobNotReady }
C23_FailuresChangeNothing ==
    [][ \A c \in Callers :
          C23_Failed(c) =>
            /\ state' = state
            /\ currentJob' = currentJob
            /\ jobs' = jobs
            /\ history' = history
            /\ timers' = timers
            /\ ret'[c].job = ZeroJob
            /\ mu' = Free ]_vars

\* C23 witness: a RetrieveJob of a job failed with ErrJobNotReady, and the
\* same job was later handed to another caller.
C23_Witness ==
    \E a, b \in Callers :
        /\ ret[a].op = "RetrieveJob" /\ ret[a].err = ErrJobNotReady
        /\ Fetched(b)
        /\ ret[b].job.JobID = ret[a].jobID
        /\ ret[b].job.JobRetrieved[1] >= ret[b].job.JobReady

\* C24: no step of a Status, Ready or History call (its entry, its Lock, its
\* critical section with the return) changes state, currentJob, a job record
\* or history, or starts or moves a timer, whatever the other callers and the
\* timers do between those steps; the call returns what the machine holds at
\* the moment of its critical section.
C24_ReadOps == { "Status", "Ready", "History" }
C24_StepOf(c) ==
    /\ pc'[c] # pc[c]
    /\ call[c].op \in C24_ReadOps \/ call'[c].op \in C24_ReadOps
C24_ReadsChangeNothing ==
    [][ \A c \in Callers :
          C24_StepOf(c) =>
            /\ state' = state
            /\ currentJob' = currentJob
            /\ jobs' = jobs
            /\ history' = history
            /\ timers' = timers
            /\ BodyStep(c, "Status") => ret'[c].state = state
            /\ BodyStep(c, "Ready") => ret'[c].ready = (state = StateAvailable)
            /\ BodyStep(c, "History") => Len(ret'[c].list) = Len(history) ]_vars

\* C24 witness: a History call has returned while a job is brewing and after
\* an earlier job was retrieved, and both are still in history and job set.
C24_Witness ==
    \E c \in Callers :
        /\ ret[c].op = "History"
        /\ Len(ret[c].list) = 2
        /\ Len(history) = 2
        /\ state = StateBrewing
        /\ currentJob = history[2]
        /\ Cardinality(DOMAIN jobs) = 2

\* C25: a job record appears in the job set only in the step of a successful
\* StartJob (as the Job that call returns, JobRetrieved unset), is never
\* removed, keeps its JobID, Product, JobStarted and JobReady for ever, and has
\* its JobRetrieved changed only once: from unset to the clock reading, in the
\* step of a successful RetrieveJob of that job.
C25_Created ==
    \A id \in DOMAIN jobs' \ DOMAIN jobs :
        \E c \in Callers :
            /\ BodyStep(c, "StartJob")
            /\ ret'[c].err = ErrNone
            /\ ret'[c].job = jobs'[id]
            /\ jobs'[id].JobID = id
            /\ jobs'[id].JobRetrieved = <<>>
            /\ DOMAIN jobs' = DOMAIN jobs \cup { id }
C25_Kept ==
    \A id \in DOMAIN jobs :
        /\ id \in DOMAIN jobs'
        /\ jobs'[id].JobID = jobs[id].JobID
        /\ jobs'[id].Product = jobs[id].Product
        /\ jobs'[id].JobStarted = jobs[id].JobStarted
        /\ jobs'[id].JobReady = jobs[id].JobReady
        /\ jobs'[id].JobRetrieved # jobs[id].JobRetrieved =>
             /\ jobs[id].JobRetrieved = <<>>
             /\ jobs'[id].JobRetrieved = <<now>>
             /\ \E c \in Callers :
                  /\ BodyStep(c, "RetrieveJob")
                  /\ call[c].jobID = id
                  /\ ret'[c].err = ErrNone
C25_JobLifecycle == [][ C25_Created /\ C25_Kept ]_vars

\* C25 witness: two jobs have been admitted and both retrieved, the second
\* after the first, and a third call found the first already retrieved.
C25_Witness ==
    /\ Len(history) = 2
    /\ Retrieved = { history[1], history[2] }
    /\ jobs[history[1]].JobRetrieved[1] < jobs[history[2]].JobRetrieved[1]
    /\ \E c \in Callers :
         /\ ret[c].op = "RetrieveJob" /\ ret[c].err = ErrJobAlreadyRetrieved
         /\ ret[c].jobID = history[1]

\* C26: every job of the job set has JobReady = JobStarted + d for a brew
\* duration d of brewTimeFn's range, the same d its timer sleeps (so JobReady
\* >= JobStarted), and a JobRetrieved that is set is not before JobReady.
C26_Timestamps ==
    \A id \in DOMAIN jobs :
        LET job == jobs[id] IN
        /\ job.JobReady - job.JobStarted \in BrewTimes
        /\ job.JobReady >= job.JobStarted
        /\ id \in DOMAIN timers
        /\ timers[id].wake = job.JobReady
        /\ job.JobStarted <= now
        /\ job.JobRetrieved # <<>> =>
             /\ job.JobRetrieved[1] >= job.JobReady
             /\ job.JobRetrieved[1] <= now

\* C26 witness: a job admitted with the longest brew duration was retrieved
\* later than its JobReady.
C26_Witness ==
    \E id \in DOMAIN jobs :
        /\ jobs[id].JobReady = jobs[id].JobStarted + MaxBrew
        /\ jobs[id].JobRetrieved # <<>>
        /\ jobs[id].JobRetrieved[1] > jobs[id].JobReady

\* C27: a timer holds the mutex only for its check-and-transition step, which
\* it takes after its sleep is over and which ends with the Unlock; a sleeping
\* timer holds nothing.  So every StartJob, RetrieveJob, Status, Ready and
\* History call that has started gets the lock and returns, even if the clock
\* never advances and no pending timer ever fires.
C27_TimerLock ==
    \A id \in DOMAIN timers :
        /\ timers[id].pc = "sleep" => mu # <<"timer", id>>
        /\ mu = <<"timer", id>> => timers[id].pc = "crit" /\ now >= timers[id].wake
C27_TimerStep ==
    \A id \in JobIDs : TimerStep(id) => mu = <<"timer", id>> /\ mu' = Free
C27_NoWaitForTimer ==
    /\ [] C27_TimerLock
    /\ [][ C27_TimerStep ]_vars
    /\ \A c \in Callers : (pc[c] # "idle") ~> (pc[c] = "idle")

\* C27 witness: while the timer of the only job is still asleep, before its
\* wake time, a History call has returned that job and the mutex is free.
C27_Witness ==
    \E c \in Callers :
        /\ ret[c].op = "History"
        /\ Len(ret[c].list) = 1
        /\ Len(history) = 1
        /\ timers[history[1]].pc = "sleep"
        /\ now < timers[history[1]].wake
        /\ mu = Free

\* C28: every operation of the Machine (StartJob, RetrieveJob, Status, Ready,
\* History, awaitCompletion) releases the mutex in the step in which it
\* returns, on the error returns as on the successful one, and the mutex is
\* held exactly by the caller or timer that is inside its critical section.
\* With fair scheduling of the goroutines that hold or wait for the mutex,
\* every started caller operation returns, every timer that got the mutex
\* finishes, and a held mutex is always released again.
C28_Holder ==
    /\ mu = Free \/ \E c \in Callers : mu = <<"caller", c>>
                 \/ \E id \in DOMAIN timers : mu = <<"timer", id>>
    /\ \A c \in Callers : (mu = <<"caller", c>>) <=> (pc[c] = "crit")
    /\ \A id \in DOMAIN timers : (mu = <<"timer", id>>) <=> (timers[id].pc = "crit")
C28_Release ==
    /\ \A c \in Callers :
         (pc[c] = "crit" /\ pc'[c] = "idle") => mu = <<"caller", c>> /\ mu' = Free
    /\ \A id \in JobIDs : TimerStep(id) => mu = <<"timer", id>> /\ mu' = Free
C28_LockReleased ==
    /\ [] C28_Holder
    /\ [][ C28_Release ]_vars
    /\ \A c \in Callers : []<>(pc[c] = "idle" /\ mu # <<"caller", c>>)
    /\ \A id \in JobIDs :
         []<>(~(id \in DOMAIN timers /\ timers[id].pc = "crit") /\ mu # <<"timer", id>>)
    /\ []<>(mu = Free)

\* C28 witness: StartJob has returned ErrMachineBusy, the timer of the first
\* job has run, and the mutex is free while another caller waits in Lock().
C28_Witness ==
    /\ ret[Worker].op = "StartJob"
    /\ ret[Worker].err = ErrMachineBusy
    /\ pc[Worker] = "idle"
    /\ mu = Free
    /\ \E id \in DOMAIN timers : timers[id].pc = "done"
    /\ \E c \in Callers \ { Worker } : pc[c] = "lock"

\* C30: in every reachable state of the Machine, state is Available exactly
\* when currentJob is empty; a non-empty currentJob names a job of the job set
\* whose JobRetrieved is unset; every other job of the job set has
\* JobRetrieved set; and history lists exactly the keys of the job set, each
\* of them once.
C30_HistoryKeys ==
    /\ { history[i] : i \in 1..Len(history) } = DOMAIN jobs
    /\ \A i, j \in 1..Len(history) : history[i] = history[j] => i = j
C30_MachineInvariant ==
    /\ (state = StateAvailable) <=> (currentJob = "")
    /\ currentJob # "" =>
          currentJob \in DOMAIN jobs /\ jobs[currentJob].JobRetrieved = <<>>
    /\ \A id \in DOMAIN jobs \ { currentJob } : jobs[id].JobRetrieved # <<>>
    /\ C30_HistoryKeys

\* C30 witness: two jobs were admitted; the first is retrieved and its timer
\* has run, the second is the active one and the machine is Blocked on it.
C30_Witness ==
    /\ Len(history) = 2
    /\ jobs[history[1]].JobRetrieved # <<>>
    /\ timers[history[1]].pc = "done"
    /\ currentJob = history[2]
    /\ state = StateBlocked

C31_Blocked ==
    state = StateBlocked =>
        /\ currentJob \in DOMAIN jobs
        /\ now >= jobs[currentJob].JobReady
        /\ jobs[currentJob].JobRetrieved = <<>>
C31_Changes ==
    state' # state =>
        \/ /\ state = StateAvailable /\ state' = StateBrewing
           /\ \E c \in Callers : BodyStep(c, "StartJob") /\ ret'[c].err = ErrNone
        \/ /\ state = StateBrewing /\ state' = StateBlocked
           /\ \E id \in JobIDs : TimerStep(id)
        \/ /\ state \in { StateBrewing, StateBlocked } /\ state' = StateAvailable
           /\ \E c \in Callers : BodyStep(c, "RetrieveJob") /\ ret'[c].err = ErrNone
C31_LateTimer ==
    \A id \in JobIDs :
        (TimerStep(id) /\ currentJob # id) => state' = state
C31_StateMachine ==
    /\ [] C31_Blocked
    /\ [][ C31_Changes /\ C31_LateTimer ]_vars

\* C31 witness: the machine is Blocked on the second job while the timer of
\* the first, retrieved job has only now got the mutex for its check.
C31_Witness ==
    /\ Len(history) = 2
    /\ state = StateBlocked
    /\ currentJob = history[2]
    /\ jobs[history[1]].JobRetrieved # <<>>
    /\ timers[history[1]].pc = "crit"
    /\ mu = <<"timer", history[1]>>

\* C32 as stated: in the implementation of src/Changelog.md no handler reads
\* the fields of a job returned by StartJob, RetrieveJob or GetAllJobs while
\* RetrieveJob writes that job's JobRetrieved: there is no state in which one
\* handler is encoding a job record it holds a pointer to, outside the lock,
\* and another caller's RetrieveJob holds the lock and is about to stamp that
\* record.
CL_Stamping(c, id) ==
    /\ pc[c] = "crit"
    /\ call[c].op = "RetrieveJob"
    /\ call[c].jobID = id
    /\ mu = <<"caller", c>>
    /\ id \in DOMAIN jobs
    /\ jobs[id].JobRetrieved = <<>>
    /\ now >= jobs[id].JobReady
C32_Original ==
    \A a, b \in Callers :
        CL_Encoding(a) => \A id \in CL_Refs(a) : ~CL_Stamping(b, id)
====
